---- MODULE Spec2Model ----
(***************************************************************************)
(* Paper2Beamer: the generate -> compile -> repair loop of TexWorkflow,    *)
(* its whole-document revision variant run_revision_tex_workflow, the      *)
(* compiler component TexValidator and the single-frame EditorAgent.       *)
(*                                                                         *)
(* A text (LLM response, TEX source) is a sequence of tokens.  A token is  *)
(* a record [k, pre, ph]:                                                  *)
(*   k = "F"  a code fence ``` with its optional latex/tex tag             *)
(*   k = "N"  a newline (white space)                                      *)
(*   k = "D"  a \documentclass preamble                                    *)
(*   k = "B"  \begin{document}        k = "E"  \end{document}              *)
(*   k = "T"  any other text                                               *)
(*   k = "P"  one of the known explanation prefixes of the reviser         *)
(*   k = "S"  one of the known explanation suffixes of the reviser         *)
(*   k = "G"  \includegraphics[..]{path}; pre says whether the path starts *)
(*            with images/, ph counts the placeholder_..png wrappers       *)
(*            around the file name                                         *)
(*   k = "FR" a \begin{frame}\frametitle{title} .. \end{frame} block; v     *)
(*            tells the versions of its body apart                         *)
(***************************************************************************)
EXTENDS Integers, Sequences, FiniteSets, TLC

\* Largest retry budget (max_retries) a run is started with.
MaxBudget == 3

Tok(k) == [k |-> k, pre |-> FALSE, ph |-> 0, title |-> "", v |-> 0]
Img(pre, ph) == [k |-> "G", pre |-> pre, ph |-> ph, title |-> "", v |-> 0]
Frame(title, v) == [k |-> "FR", pre |-> FALSE, ph |-> 0, title |-> title, v |-> v]

F == Tok("F")
N == Tok("N")
D == Tok("D")
B == Tok("B")
E == Tok("E")
T == Tok("T")
P == Tok("P")
S == Tok("S")

Empty == << >>

Contains(s, t) == \E i \in 1..Len(s) : s[i] = t

\* Index of the first occurrence of t in s at or after position from; 0 if none.
RECURSIVE FindFrom(_, _, _)
FindFrom(s, t, from) ==
    IF from > Len(s) THEN 0
    ELSE IF s[from] = t THEN from
    ELSE FindFrom(s, t, from + 1)

\* str.strip(): white space removed at both ends.
RECURSIVE LStrip(_)
LStrip(s) == IF s # Empty /\ Head(s) = N THEN LStrip(Tail(s)) ELSE s

RECURSIVE RStrip(_)
RStrip(s) ==
    IF s # Empty /\ s[Len(s)] = N THEN RStrip(SubSeq(s, 1, Len(s) - 1)) ELSE s

Strip(s) == RStrip(LStrip(s))

\* re.findall(r"```(?:latex|tex)?(.*?)```", s, re.DOTALL): the texts between
\* successive pairs of fences, scanned left to right without overlap.
RECURSIVE FenceBlocks(_)
FenceBlocks(s) ==
    LET i == FindFrom(s, F, 1)
        j == IF i = 0 THEN 0 ELSE FindFrom(s, F, i + 1)
    IN  IF j = 0 THEN << >>
        ELSE << SubSeq(s, i + 1, j - 1) >> \o FenceBlocks(SubSeq(s, j + 1, Len(s)))

\* "\n".join(blocks)
RECURSIVE JoinNL(_)
JoinNL(blocks) ==
    IF blocks = << >> THEN Empty
    ELSE IF Len(blocks) = 1 THEN blocks[1]
    ELSE blocks[1] \o << N >> \o JoinNL(Tail(blocks))

\* re.sub(r"^```(?:latex|tex)?\n", "", s) then re.sub(r"\n```$", "", s)
DropEdgeFences(s) ==
    LET a == IF Len(s) >= 2 /\ s[1] = F /\ s[2] = N
             THEN SubSeq(s, 3, Len(s)) ELSE s
    IN  IF Len(a) >= 2 /\ a[Len(a) - 1] = N /\ a[Len(a)] = F
        THEN SubSeq(a, 1, Len(a) - 2) ELSE a

\* TexGenerator._clean_tex_code, and the same cleaning at the end of
\* TexValidator.fix_tex_code.
clean_tex_code(s) ==
    IF Contains(s, F)
    THEN LET m == FenceBlocks(s)
         IN  IF m # << >> THEN Strip(JoinNL(m)) ELSE Strip(DropEdgeFences(s))
    ELSE Strip(s)

\* The minimal structural markers of a document.
HasMarkers(s) == Contains(s, B) /\ Contains(s, E)


(***************************************************************************)
(* Image references of a source text (TexValidator._process_image_references) *)
(***************************************************************************)

IsImg(t) == t.k = "G"

\* The image tokens of s, in order of appearance (re.findall of \includegraphics).
RECURSIVE ImgMatches(_)
ImgMatches(s) ==
    IF s = Empty THEN << >>
    ELSE (IF IsImg(Head(s)) THEN << Head(s) >> ELSE << >>) \o ImgMatches(Tail(s))

\* str.replace("{old}", "{new}"): every occurrence.
ReplaceTok(s, old, new) == [i \in 1..Len(s) |-> IF s[i] = old THEN new ELSE s[i]]

\* A file of that name is found in the images directory of the source, in
\* one of the possible image source directories, or at its full path.
\* visible: the placeholder depths of the image files present on disk (0: the
\* file the source names; a placeholder made by an earlier validate call was
\* made in that call's temporary directory and is gone).
ImgFound(t, visible) == t.ph \in visible

RECURSIVE MissingImgs(_, _)
MissingImgs(matches, visible) ==
    IF matches = << >> THEN << >>
    ELSE (IF ImgFound(Head(matches), visible) THEN << >> ELSE << Head(matches) >>)
         \o MissingImgs(Tail(matches), visible)

\* Lines 290-304: each missing image is replaced by images/placeholder_<name>.png
RECURSIVE ReplaceMissing(_, _)
ReplaceMissing(s, missing) ==
    IF missing = << >> THEN s
    ELSE ReplaceMissing(ReplaceTok(s, Head(missing), Img(TRUE, Head(missing).ph + 1)),
                        Tail(missing))

\* Lines 305-312: no image is missing; every path is made relative to images/
RECURSIVE RelativizeAll(_, _)
RelativizeAll(s, matches) ==
    IF matches = << >> THEN s
    ELSE RelativizeAll(IF Head(matches).pre THEN s
                       ELSE ReplaceTok(s, Head(matches), Img(TRUE, Head(matches).ph)),
                       Tail(matches))

\* The text that _process_image_references writes back to the source file.
process_image_references(s, visible) ==
    LET matches == ImgMatches(s)
        missing == MissingImgs(matches, visible)
    IN  IF missing # << >> THEN ReplaceMissing(s, missing)
        ELSE RelativizeAll(s, matches)

(***************************************************************************)
(* Error extraction (TexValidator._extract_error_message).  A raw log is   *)
(* the set of the signatures that occur in it.                             *)
(***************************************************************************)

error_patterns ==
    << "latex_error", "package_error", "undefined_cs", "missing_inserted",
       "tikz_error", "cant_find_file" >>

RECURSIVE FirstPattern(_, _)
FirstPattern(log, i) ==
    IF i > Len(error_patterns) THEN "none"
    ELSE IF error_patterns[i] \in log THEN error_patterns[i]
    ELSE FirstPattern(log, i + 1)

extract_error_message(log) ==
    LET e == FirstPattern(log, 1)
    IN  IF e # "none" THEN e
        ELSE IF "warning" \in log THEN "warning"
        ELSE ""

\* Mutant of classify: the result depends on the validator's language.
classify_by_language(self, log) ==
    IF self.language = "zh" THEN extract_error_message(log) ELSE ""

\* self._extract_error_message(log_output): the call on a validator self.
classify(self, log) == extract_error_message(log)

\* The validators the classifier is called on: [language, available_fonts].
Validators ==
    { [language |-> "zh", available_fonts |-> {}],
      [language |-> "zh", available_fonts |-> { "SimSun" }],
      [language |-> "en", available_fonts |-> {}] }

\* Most calls of the classifier recorded in one behaviour.
MaxCalls == 3

\* The raw logs the compiler is taken to print on a non-zero exit.
Logs == { {"undefined_cs"}, {"latex_error", "undefined_cs"}, {"warning"}, {} }

(***************************************************************************)
(* The responses of the generation capability.                             *)
(***************************************************************************)

Responses ==
    { Empty,
      << N >>,
      << F, F >>,
      << D, B, T, E >>,
      << F, N, D, B, T, E, N, F >>,
      << T, F, D, B, E, F, T >>,
      << F, N, T >>,
      << T >>,
      << D, B, T >>,
      << D, B, Img(FALSE, 0), E >>,
      << D, B, Img(TRUE, 0), E >>,
      << P, D, B, T, E, S, T >> }

(***************************************************************************)
(* Files.  A file is [exists, data]; the data of a compiled file is the    *)
(* source text the compiler ran on, the data of a log the number of the    *)
(* validate call that wrote it.                                            *)
(***************************************************************************)

Absent == [exists |-> FALSE, data |-> Empty]
File(d) == [exists |-> TRUE, data |-> d]

\* The sources that successive localized revisions write, each named after
\* the one it revises, and their compiled files.
EdTexNames ==
    << "output.tex", "output_revised.tex", "output_revised_revised.tex",
       "output_revised_revised_revised.tex",
       "output_revised_revised_revised_revised.tex" >>

EdPdfNames ==
    << "output.pdf", "output_revised.pdf", "output_revised_revised.pdf",
       "output_revised_revised_revised.pdf",
       "output_revised_revised_revised_revised.pdf" >>

\* The position of p in names; 0 if it is not there.
NameIndex(names, p) ==
    IF \E i \in 1..Len(names) : names[i] = p
    THEN CHOOSE i \in 1..Len(names) : names[i] = p
    ELSE 0

Paths ==
    { "output.log", "revised.tex", "revised.pdf", "revised.log", "prev.tex", "prev.pdf" }
    \cup { EdTexNames[i] : i \in 1..Len(EdTexNames) }
    \cup { EdPdfNames[i] : i \in 1..Len(EdPdfNames) }

\* os.path.splitext(tex_basename)[0] + ".pdf" in the output directory
PdfPath(tex) ==
    IF NameIndex(EdTexNames, tex) # 0 THEN EdPdfNames[NameIndex(EdTexNames, tex)]
    ELSE "revised.pdf"

LogPath(tex) == IF tex = "output.tex" THEN "output.log" ELSE "revised.log"

\* The source file of the run: output_dir/output.tex for TexWorkflow.process,
\* session_output_dir/revised_<timestamp>.tex for the revision workflow.
SrcPath(e) == IF e = "process" THEN "output.tex" ELSE "revised.tex"

NoResult == [set |-> FALSE, success |-> FALSE, msg |-> "", err |-> "", path |-> "none"]
Result(ok, msg, err, path) ==
    [set |-> TRUE, success |-> ok, msg |-> msg, err |-> err, path |-> path]

NoValidate == [ok |-> FALSE, msg |-> "", path |-> "none", outcome |-> "none"]

(***************************************************************************)
(* Whole-document revision: RevisionTexGenerator.generate_revised_tex      *)
(***************************************************************************)

\* max(tex_matches, key=len): the first block of greatest length.
RECURSIVE Longest(_)
Longest(blocks) ==
    IF Len(blocks) = 1 THEN blocks[1]
    ELSE LET r == Longest(Tail(blocks))
         IN  IF Len(blocks[1]) >= Len(r) THEN blocks[1] ELSE r

\* r"```(?:latex)?\s*([\s\S]*?)```": the white space after the opening fence
\* is not part of the block.
RECURSIVE LStripAll(_)
LStripAll(blocks) ==
    IF blocks = << >> THEN << >>
    ELSE << LStrip(Head(blocks)) >> \o LStripAll(Tail(blocks))

\* Lines 205-228: the text after a known prefix, before a known suffix.
CutAffixes(s) ==
    LET i == FindFrom(s, P, 1)
        a == IF i = 0 THEN s ELSE Strip(SubSeq(s, i + 1, Len(s)))
        j == FindFrom(a, S, 1)
    IN  IF j = 0 THEN a ELSE Strip(SubSeq(a, 1, j - 1))

\* Lines 233-235: the preamble of the previous source, from its first
\* \documentclass up to the \begin{document} that follows; Empty if none.
Preamble(prev) ==
    LET i == FindFrom(prev, D, 1)
        j == IF i = 0 THEN 0 ELSE FindFrom(prev, B, i + 1)
    IN  IF j = 0 THEN Empty ELSE SubSeq(prev, i, j - 1)

HasPreamble(prev) ==
    LET i == FindFrom(prev, D, 1)
    IN  i # 0 /\ FindFrom(prev, B, i + 1) # 0

\* prev.split("\\begin{document}")[0]
BeforeBegin(prev) ==
    LET j == FindFrom(prev, B, 1)
    IN  IF j = 0 THEN prev ELSE SubSeq(prev, 1, j - 1)

\* Lines 192-256: the revised source extracted from the response resp.
revised_tex_of(resp, prev) ==
    LET m  == LStripAll(FenceBlocks(resp))
        t0 == IF m # << >> THEN Longest(m) ELSE CutAffixes(resp)
        s0 == Strip(t0)
        t1 == IF s0 # Empty /\ s0[1] = D THEN t0
              ELSE IF HasPreamble(prev)
                   THEN IF Contains(t0, B)
                        THEN Preamble(prev) \o << N >> \o t0
                        ELSE Preamble(prev) \o << N, B, N >> \o t0 \o << N, E >>
                   ELSE t0
        t2 == IF Contains(t1, B) THEN t1
              ELSE BeforeBegin(prev) \o << N, B, N >> \o t1
        t3 == IF Contains(t2, E) THEN t2 ELSE t2 \o << N, E >>
    IN  Strip(t3)

\* The previous sources a revision is started from.
PrevTexts == { << D, N, B, T, E >>, << B, T, E >>, Empty }

(***************************************************************************)
(* The compiler component: TexValidator.validate                           *)
(***************************************************************************)

\* The bytes of the compiled file the compiler writes for the text it ran on.
CompiledFrom(text) == << Tok("PDF") >> \o text

\* The log file that the call-th validate call leaves.
LogOf(call) == << [k |-> "LOG", pre |-> FALSE, ph |-> 0, title |-> "", v |-> call] >>

\* What the compiler subprocess can do within one validate call.
CompilerOutcomes == { "pdf", "nopdf", "error", "timeout", "oserror" }

\* subprocess.run(..., timeout=timeout): the timeout of the validator's call.
ValidateTimeout == 60

\* A compiler invocation: who issued it and the timeout it was given (0: none).
Run(by, timeout) == [by |-> by, timeout |-> timeout]

\* Mutant of ValidateResult: an exit code of zero is reported as a success
\* whether the compiled file is there or not.
ValidateResultExitCodeOnly(tex, outcome, log) ==
    IF outcome \in { "pdf", "nopdf" }
    THEN [ok |-> TRUE, msg |-> "compiled", path |-> PdfPath(tex), outcome |-> outcome]
    ELSE [ok |-> FALSE, msg |-> "failed", path |-> "none", outcome |-> outcome]

\* (success, message, path) returned by validate for an outcome of the
\* compiler (lines 146-196); outcome "missing": there is no file at tex
\* (lines 86-87).
ValidateResult(tex, outcome, log) ==
    CASE outcome = "pdf"     -> [ok |-> TRUE,  msg |-> "compiled", path |-> PdfPath(tex), outcome |-> outcome]
      [] outcome = "missing" -> [ok |-> FALSE, msg |-> "missing", path |-> "none", outcome |-> outcome]
      [] outcome = "nopdf"   -> [ok |-> FALSE, msg |-> "no_pdf", path |-> "none", outcome |-> outcome]
      [] outcome = "error"   ->
            [ok |-> FALSE,
             msg |-> IF extract_error_message(log) = "" THEN "unknown_error"
                     ELSE extract_error_message(log),
             path |-> "none", outcome |-> outcome]
      [] outcome = "timeout" -> [ok |-> FALSE, msg |-> "timeout", path |-> "none", outcome |-> outcome]
      [] OTHER               -> [ok |-> FALSE, msg |-> "exception", path |-> "none", outcome |-> outcome]

\* Mutant of FilesAfterValidate: the compiled file is not copied out of the
\* temporary directory.
FilesAfterValidateNoCopy(files, tex, newText, outcome, call) ==
    [p \in Paths |->
        IF p = tex THEN File(newText)
        ELSE IF p = LogPath(tex) /\ outcome \in {"pdf", "error"} THEN File(LogOf(call))
        ELSE files[p]]

\* The persistent files after validate: the source as rewritten by the image
\* pass (lines 112-116, 314-316), the compiled file copied on success (lines
\* 164-166), the log copied on success and on a non-zero exit (168-173, 184-189).
FilesAfterValidate(files, tex, newText, outcome, call) ==
    [p \in Paths |->
        IF p = tex THEN File(newText)
        ELSE IF p = PdfPath(tex) /\ outcome = "pdf" THEN File(CompiledFrom(files[tex].data))
        ELSE IF p = LogPath(tex) /\ outcome \in {"pdf", "error"} THEN File(LogOf(call))
        ELSE files[p]]

(***************************************************************************)
(* The retry loop (TexWorkflow.process, run_revision_tex_workflow)         *)
(***************************************************************************)

\* No run of the model counts more calls than this.
CounterCap == MaxBudget + 1

\* Mutant of LoopHasNext: the range is one too long.
LoopHasNextOffByOne(a, m) == a <= m + 1

\* for attempt in range(1, max_retries + 1)
LoopHasNext(a, m) == a <= m

\* Mutant of RepairAllowed: the last failed attempt is repaired too.
RepairAlsoAfterLast(a, m) == a <= m

\* if attempt < self.max_retries
RepairAllowed(a, m) == a < m

\* Mutant of SynthFailed: the result of the synthesis is not checked.
SynthNeverFailed(tex) == FALSE

\* if not tex_code
SynthFailed(tex) == tex = Empty

\* Mutant of NextAttempt: the loop index does not advance.
NextAttemptStuck(a) == a

\* The next loop index
NextAttempt(a) == a + 1

\* The result returned when no attempt succeeded: process line 173 drops the
\* error message, the revision workflow (line 509) embeds it; both return None.
ExhaustedResult(e, err) ==
    IF e = "process" THEN Result(FALSE, "exhausted", "", "none")
    ELSE Result(FALSE, "compile_failed", err, "none")

SuccessResult(e, path) ==
    IF e = "process" THEN Result(TRUE, "ok", "", path)
    ELSE Result(TRUE, "ai_message", "", path)

(***************************************************************************)
(* The single-frame reviser: EditorAgent (interactive_reviser.py)          *)
(***************************************************************************)

\* The page numbers that r'(?:第|page)\s*(\d+)' finds in the feedback texts.
EdFeedbacks == { << >>, << 1 >>, << 2 >>, << 3 >>, << 4 >>, << 5 >>, << 4, 3 >> }

\* _find_target_page_number: the first number found, -1 if none.
find_target_page_number(fb) == IF fb = << >> THEN -1 ELSE fb[1]

Slide(n, title) == [slide_number |-> n, title |-> title]

\* The slides_plan of the plans the reviser is run on.
EdPlans ==
    { << Slide(1, "A"), Slide(2, "B") >>,
      << Slide(1, "A"), Slide(2, "A") >>,
      << Slide(1, ""), Slide(2, "B") >>,
      << Slide(2, "B") >> }

\* The sources the reviser is run on.
EdTexts ==
    { << D, B, Frame("A", 0), Frame("B", 0), E >>,
      << D, B, Frame("A", 0), Frame("A", 0), E >>,
      << D, B, Frame("A", 0), Frame("A", 1), E >>,
      << D, B, Frame("B", 0), E >> }

\* next((s for s in slides_plan if s["slide_number"] == n), None): its index, 0 if none.
RECURSIVE SlideIndex(_, _, _)
SlideIndex(slides, n, i) ==
    IF i > Len(slides) THEN 0
    ELSE IF slides[i].slide_number = n THEN i
    ELSE SlideIndex(slides, n, i + 1)

\* _find_frame_for_slide: the index of the first frame block that holds
\* \frametitle{title}; 0 if none.
RECURSIVE FrameIndex(_, _, _)
FrameIndex(tex, title, i) ==
    IF i > Len(tex) THEN 0
    ELSE IF tex[i].k = "FR" /\ tex[i].title = title THEN i
    ELSE FrameIndex(tex, title, i + 1)

\* tex_content.replace(old_code_snippet, new_code): every occurrence of the
\* block is replaced.
RECURSIVE ReplaceBlock(_, _, _)
ReplaceBlock(tex, old, new) ==
    IF tex = Empty THEN Empty
    ELSE (IF Head(tex) = old THEN new ELSE << Head(tex) >>)
         \o ReplaceBlock(Tail(tex), old, new)

\* The "new_code" values of the responses; Empty: no new_code in the response.
EdNewCodes(old) ==
    { Empty,
      << old >>,
      << Frame(old.title, old.v + 1) >>,
      << Frame("C", 0) >>,
      << Frame(old.title, old.v + 1), Frame("C", 0) >>,
      << T >> }

\* Mutant of RevisedPath: the revised source is written over the given one.
RevisedInPlace(tex) == tex

\* os.path.basename(tex_path).replace(".tex", "_revised.tex") in output_dir
RevisedPath(tex) == EdTexNames[NameIndex(EdTexNames, tex) + 1]

\* Most revise calls of one session of the driver.
MaxRevise == 3

\* Mutant of HistoryAfter: the assistant's message is not recorded.
HistoryAfterUserOnly(h, fb, ok) == h \o << [role |-> "user", content |-> fb] >>

\* revise lines 198-207: the two entries appended after the compile step.
HistoryAfter(h, fb, ok) ==
    h \o << [role |-> "user", content |-> fb], [role |-> "assistant", content |-> ok] >>

\* Mutant of Adopt: the driver takes every path that revise returns.
AdoptAlways(ok, new_path, cur) == IF new_path # "none" THEN new_path ELSE cur

\* The driver, test_interactive_reviser.py lines 84-92: current_tex_path
\* becomes new_path only if success.
Adopt(ok, new_path, cur) == IF ok THEN new_path ELSE cur

\* Mutant of Unsupported: only the title page is refused.
UnsupportedTitleOnly(page) == page <= 1

\* if page_number <= 2: the title page and the table of contents
Unsupported(page) == page <= 2

\* subprocess.run(command, check=True, ...) of _compile_tex: no timeout.
NoTimeout == 0

\* What the two compiler runs of _compile_tex can do.
\* "raised": an exception that _compile_tex does not catch (the decoding of
\* the compiler's output with text=True, a permission error), which revise
\* catches at line 217.
EdCompileOutcomes == { "ok", "failed", "notfound", "hang", "raised" }

(***************************************************************************)
(* The figures of the plan and TexWorkflow._preprocess_images.  A figure    *)
(* path is [set, pre, name, ph]: set says that a non-empty path is given,   *)
(* pre that it starts with images/, name is its base name ("" when the path *)
(* ends with a separator), ph counts the placeholder_..png wrappers around  *)
(* the name.  The images directory is [dir, files]: whether it exists and   *)
(* the [name, ph] of the files in it.                                       *)
(***************************************************************************)

NoPath == [set |-> FALSE, pre |-> FALSE, name |-> "", ph |-> 0]
FigPath(pre, name, ph) == [set |-> TRUE, pre |-> pre, name |-> name, ph |-> ph]

\* A slide of slides_plan: includes_figure and figure_reference["path"].
PlanSlide(inc, path) == [includes_figure |-> inc, path |-> path]

ImageFile(name, ph) == [name |-> name, ph |-> ph]
ImagesDir(dir, files) == [dir |-> dir, files |-> files]

\* The loop body of _preprocess_images for one slide (lines 203-288); saveOk:
\* the placeholder image can be drawn and saved.
preprocess_slide(sl, a, saveOk) ==
    IF ~sl.includes_figure \/ ~sl.path.set THEN [slide |-> sl, assets |-> a]
    ELSE IF a.dir /\ sl.path.name = "" THEN [slide |-> sl, assets |-> a]
    ELSE IF a.dir /\ ImageFile(sl.path.name, sl.path.ph) \in a.files
    THEN [slide  |-> PlanSlide(TRUE, FigPath(TRUE, sl.path.name, sl.path.ph)),
          assets |-> a]
    ELSE IF saveOk
    THEN [slide  |-> PlanSlide(TRUE, FigPath(TRUE, sl.path.name, sl.path.ph + 1)),
          assets |-> ImagesDir(TRUE, a.files \cup { ImageFile(sl.path.name, sl.path.ph + 1) })]
    ELSE [slide |-> PlanSlide(FALSE, NoPath), assets |-> ImagesDir(TRUE, a.files)]

\* _preprocess_images over the slides, in order: the plan and the images
\* directory it leaves.
RECURSIVE preprocess_images(_, _, _)
preprocess_images(slides_plan, a, saveOk) ==
    IF slides_plan = << >> THEN [plan |-> << >>, assets |-> a]
    ELSE LET h == preprocess_slide(Head(slides_plan), a, saveOk)
             t == preprocess_images(Tail(slides_plan), h.assets, saveOk)
         IN  [plan |-> << h.slide >> \o t.plan, assets |-> t.assets]

\* images/<name> names a file of the images directory.
PathExists(p, a) == p.set /\ p.pre /\ a.dir /\ ImageFile(p.name, p.ph) \in a.files

\* The figure slides of the plans.
FigSlides ==
    { PlanSlide(FALSE, NoPath),
      PlanSlide(TRUE, NoPath),
      PlanSlide(TRUE, FigPath(FALSE, "fig", 0)),
      PlanSlide(TRUE, FigPath(TRUE, "fig", 0)),
      PlanSlide(TRUE, FigPath(FALSE, "", 0)) }

\* The plans: one or two slides.
Plans ==
    { << a >> : a \in FigSlides } \cup
    { << PlanSlide(TRUE, FigPath(FALSE, "fig", 0)), a >> : a \in FigSlides }

\* The states of output/images/<session_id>.
AssetStates ==
    { ImagesDir(FALSE, {}), ImagesDir(TRUE, {}), ImagesDir(TRUE, { ImageFile("fig", 0) }) }

\* The plan and the images directory of the runs in which figures play no part.
DefaultPlans == { << PlanSlide(FALSE, NoPath) >> }
DefaultAssets == { ImagesDir(TRUE, {}) }

\* The prompt of the synthesis: not sent, or sent with a plan.
NoPrompt == [sent |-> FALSE, plan |-> << >>]
Prompt(plan) == [sent |-> TRUE, plan |-> plan]

\* The keyword arguments of TexValidator.__init__ and those its callers pass.
ValidatorParams == { "output_dir", "language" }
WorkflowValidatorKwargs == { "output_dir", "language", "session_id" }

\* A call with a keyword the callee does not have raises TypeError.
CallRaises(kwargs, params) == ~(kwargs \subseteq params)

VARIABLES
    entry,         \* the entry point of this run
    maxRetries,    \* max_retries
    planOk,        \* the plan file loads to a non-empty plan
    llmOk,         \* the generator's language model is initialised
    visible,       \* the placeholder depths of the image files found on disk
    pc,            \* position in the run
    attempt,       \* the loop index
    fs,            \* the persistent files
    vres,          \* the last result of validate
    success,       \* the loop's success flag
    pdf_path,      \* the loop's pdf_path
    error_message, \* the loop's error_message
    result,        \* the value returned to the caller
    nSynth,        \* calls of the synthesis step
    nPlanResolve,  \* calls of TexWorkflow._preprocess_images
    nImgPass,      \* calls of TexValidator._process_image_references
    nValidate,     \* calls of TexValidator.validate
    nRepair,       \* calls of TexValidator.fix_tex_code
    nFailed,       \* failed validate calls
    lastWritten,   \* the last text written by the synthesis or by a repair
    runs,          \* the compiler invocations: [by, timeout]
    feedback,      \* the page numbers found in the user's feedback
    slides,        \* slides_plan of the plan the reviser reads
    history,       \* EditorAgent.history
    edOld,         \* the frame block located by the reviser
    synthText,     \* the text returned by the synthesis step
    current_tex_code, \* the text read for the repair of this iteration
    prev_pdf,      \* the compiled file of the previous version, as the run found it
    new_code,      \* "new_code" of the reviser's last response
    viaRun,        \* the run is a call of run_tex_workflow, which builds the workflow
    gen_plan,      \* TexGenerator.presentation_plan, loaded by its constructor
    plan_file,     \* slides_plan of the plan file
    presentation_plan, \* the plan loaded by process and resolved by _preprocess_images
    assets,        \* output/images/<session_id>
    prompt_plan,   \* the plan in the prompt of the synthesis
    passes,        \* compiler invocations of the last compile attempt
    calls,         \* the direct calls of the classifier: [self, log, result]
    tex_path,      \* the source given to revise (the driver's current_tex_path)
    nRevise,       \* revise calls of the session
    fix_raised     \* the last repair call raised inside fix_tex_code

vars == << entry, maxRetries, planOk, llmOk, visible, pc, attempt, fs, vres, success,
           pdf_path, error_message, result, nSynth, nPlanResolve, nImgPass,
           nValidate, nRepair, nFailed, lastWritten, runs, feedback, slides,
           history, edOld, synthText, current_tex_code, prev_pdf, new_code,
           viaRun, gen_plan, plan_file, presentation_plan, assets, prompt_plan,
           passes, calls, tex_path, nRevise, fix_raised >>

\* The variables that only some steps of the loops change.
planvars == << plan_file, presentation_plan, assets >>

aux == << current_tex_code, planvars, prompt_plan, passes, fix_raised >>

env == << entry, maxRetries, planOk, llmOk, visible, feedback, slides, prev_pdf,
         viaRun, gen_plan >>

edvars == << history, edOld, new_code, tex_path, nRevise >>

\* The compiled file of the version a revision starts from.
PrevArtifact(e) == IF e = "editor" THEN "output.pdf" ELSE "prev.pdf"

Entries == { "process", "revision", "editor" }

InitFiles(prev) ==
    [p \in Paths |->
        IF p = "prev.tex" THEN (IF prev = Empty THEN Absent ELSE File(prev))
        ELSE IF p = "prev.pdf" THEN File(CompiledFrom(prev))
        ELSE Absent]

\* The states in which a run starts; PlanSet, AssetSet: the plans and the
\* states of the images directory it may find.
InitWith(PlanSet, AssetSet) ==
    /\ entry \in Entries
    /\ planOk \in BOOLEAN
    /\ IF entry = "editor"
       THEN /\ maxRetries = 0
            /\ llmOk = TRUE
            /\ visible = {}
            /\ feedback \in EdFeedbacks
            /\ slides \in EdPlans
            /\ \E tex \in EdTexts :
                  fs = [InitFiles(Empty) EXCEPT !["output.tex"] = File(tex),
                                               !["output.pdf"] = File(CompiledFrom(tex))]
       ELSE /\ maxRetries \in 0..MaxBudget
            /\ llmOk \in BOOLEAN
            /\ visible \in SUBSET {0}
            /\ feedback = << >>
            /\ slides = << Slide(1, "A"), Slide(2, "B") >>
            /\ \E prev \in PrevTexts :
                  fs = InitFiles(IF entry = "revision" THEN prev ELSE << D, N, B, T, E >>)
    /\ prev_pdf = fs[PrevArtifact(entry)]
    /\ history = << >>
    /\ edOld = T
    /\ new_code = Empty
    /\ synthText = Empty
    /\ current_tex_code = Empty
    /\ viaRun \in (IF entry = "process" THEN BOOLEAN ELSE { FALSE })
    /\ plan_file \in (IF entry = "process" THEN PlanSet ELSE DefaultPlans)
    /\ assets \in (IF entry = "process" THEN AssetSet ELSE DefaultAssets)
    /\ gen_plan = plan_file
    /\ presentation_plan = << >>
    /\ prompt_plan = NoPrompt
    /\ passes = 0
    /\ calls = << >>
    /\ tex_path = "output.tex"
    /\ nRevise = IF entry = "editor" THEN 1 ELSE 0
    /\ fix_raised = FALSE
    /\ pc = IF viaRun THEN "construct" ELSE "start"
    /\ attempt = 0
    /\ vres = NoValidate
    /\ success = FALSE
    /\ pdf_path = "none"
    /\ error_message = ""
    /\ result = NoResult
    /\ nSynth = 0
    /\ nPlanResolve = 0
    /\ nImgPass = 0
    /\ nValidate = 0
    /\ nRepair = 0
    /\ nFailed = 0
    /\ lastWritten = Empty
    /\ runs = {}

Init == InitWith(DefaultPlans, DefaultAssets)

Return(r) == /\ result' = r
             /\ pc' = "done"

\* run_tex_workflow lines 339-347: TexWorkflow(...) builds its generator and
\* its validator (_init_model, lines 77-94) outside any try; an exception of
\* the constructor leaves run_tex_workflow before process is called.
Construct ==
    /\ pc = "construct"
    /\ pc' = IF CallRaises(WorkflowValidatorKwargs, ValidatorParams)
             THEN "raised" ELSE "start"
    /\ UNCHANGED << env, calls, aux, edvars, synthText, attempt, fs, vres, success, pdf_path,
                    error_message, result, nSynth, nPlanResolve, nImgPass, nValidate,
                    nRepair, nFailed, lastWritten, runs >>

\* process lines 104-111: the plan is loaded and its images are preprocessed
\* (_preprocess_images, lines 190-302, which saves the plan back; a failure
\* of that save is only logged).
LoadPlan ==
    /\ pc = "start" /\ entry = "process"
    /\ IF planOk
       THEN /\ nPlanResolve' = nPlanResolve + 1
            /\ \E saveOk \in BOOLEAN, planSaved \in BOOLEAN :
                  LET r == preprocess_images(plan_file, assets, saveOk)
                  IN  /\ presentation_plan' = r.plan
                      /\ assets' = r.assets
                      /\ plan_file' = IF planSaved THEN r.plan ELSE plan_file
            /\ pc' = "generate"
            /\ UNCHANGED result
       ELSE /\ Return(Result(FALSE, "plan_load_failed", "", "none"))
            /\ UNCHANGED << nPlanResolve, planvars >>
    /\ UNCHANGED << env, calls, current_tex_code, fix_raised, prompt_plan, passes, edvars, synthText, attempt, fs, vres, success, pdf_path, error_message, nSynth,
                    nImgPass, nValidate, nRepair, nFailed, lastWritten, runs >>

\* TexGenerator.generate_tex (lines 110-157): "" without a plan or a model or
\* when the call raises, else the cleaned response.
GeneratedTexts(R) ==
    IF ~llmOk THEN { Empty }
    ELSE { Empty } \cup { clean_tex_code(r) : r \in R }

\* Mutant of AfterRepairPc: a failed compile starts the synthesis again.
AfterRepairRegenerates == "generate"

\* After a repair the loop goes back to its head.
AfterRepairPc == "loop"

\* process lines 113-128: synthesis, the check of its result, the first write.
\* R: the responses the generation capability can give.
Generate(R) ==
    /\ pc = "generate"
    /\ nSynth' = nSynth + 1
    /\ prompt_plan' = IF llmOk THEN Prompt(gen_plan) ELSE NoPrompt
    /\ \E tex \in GeneratedTexts(R) :
          /\ synthText' = tex
          /\ IF SynthFailed(tex)
             THEN /\ Return(Result(FALSE, "gen_failed", "", "none"))
                  /\ UNCHANGED << fs, lastWritten, attempt >>
             ELSE /\ fs' = [fs EXCEPT !["output.tex"] = File(tex)]
                  /\ lastWritten' = tex
                  /\ attempt' = 1
                  /\ pc' = "loop"
                  /\ UNCHANGED result
    /\ UNCHANGED << env, calls, current_tex_code, fix_raised, planvars, passes, edvars, vres, success,
                    pdf_path, error_message, nPlanResolve,
                    nImgPass, nValidate, nRepair, nFailed, runs >>

\* generate_revised_tex (lines 134-262): "" without model, plan or previous
\* source, or when the call raises.
RevisedTexts ==
    IF ~llmOk \/ ~planOk \/ ~fs["prev.tex"].exists THEN { Empty }
    ELSE { Empty } \cup { revised_tex_of(r, fs["prev.tex"].data) : r \in Responses }

\* run_revision_tex_workflow lines 387-464: the revised source is generated
\* and saved at a new path of a new session directory.
ReviseGenerate ==
    /\ pc = "start" /\ entry = "revision"
    /\ nSynth' = nSynth + 1
    /\ \E tex \in RevisedTexts, saved \in BOOLEAN :
          /\ synthText' = tex
          /\ IF tex = Empty
             THEN /\ Return(Result(FALSE, "rev_gen_failed", "", "none"))
                  /\ UNCHANGED << fs, lastWritten, attempt >>
             ELSE IF ~saved
             THEN /\ Return(Result(FALSE, "rev_save_failed", "", "none"))
                  /\ UNCHANGED << fs, lastWritten, attempt >>
             ELSE /\ fs' = [fs EXCEPT !["revised.tex"] = File(tex)]
                  /\ lastWritten' = tex
                  /\ attempt' = 1
                  /\ pc' = "loop"
                  /\ UNCHANGED result
    /\ UNCHANGED << env, calls, aux, edvars, vres, success, pdf_path, error_message, nPlanResolve,
                    nImgPass, nValidate, nRepair, nFailed, runs >>

\* One call of TexValidator.validate(tex): the check of the source, the image
\* pass, the compiler run, the files copied out and the returned triple.
\* L: the raw logs the compiler can print.
ValidateCall(L, tex) ==
    /\ IF ~fs[tex].exists
       THEN /\ vres' = ValidateResult(tex, "missing", {})
            /\ nFailed' = nFailed + 1
            /\ passes' = 0
            /\ UNCHANGED << fs, nImgPass, runs >>
       ELSE /\ \E outcome \in CompilerOutcomes, log \in L, passRaises \in BOOLEAN :
                  /\ outcome # "error" => log = {}
                  /\ fs' = FilesAfterValidate(
                              fs, tex,
                              IF passRaises THEN fs[tex].data
                              ELSE process_image_references(fs[tex].data, visible),
                              outcome, nValidate + 1)
                  /\ vres' = ValidateResult(tex, outcome, log)
                  /\ nFailed' = IF outcome = "pdf" THEN nFailed ELSE nFailed + 1
            /\ nImgPass' = nImgPass + 1
            /\ runs' = runs \cup { Run("validate", ValidateTimeout) }
            /\ passes' = 1
    /\ nValidate' = nValidate + 1

\* The call of validate at the head of a loop iteration (line 134, revision
\* line 471).
Validate(L) ==
    /\ pc = "loop"
    /\ LoopHasNext(attempt, maxRetries)
    /\ nValidate <= CounterCap
    /\ ValidateCall(L, SrcPath(entry))
    /\ current_tex_code' = Empty
    /\ fix_raised' = FALSE
    /\ pc' = "validated"
    /\ UNCHANGED << env, calls, planvars, prompt_plan, edvars, synthText, attempt, success, pdf_path, error_message, result, nSynth,
                    nPlanResolve, nRepair, lastWritten >>

\* The sources a caller of validate_tex can have put at the path.
DirectTexts == { << D, B, T, E >>, << D, B, Img(FALSE, 0), E >> }

\* The caller of validate_tex writes, or removes, the file it will name.
PutSource ==
    /\ pc = "start" /\ entry = "process"
    /\ \E f \in { Absent } \cup { File(t) : t \in DirectTexts } :
          /\ f # fs[SrcPath(entry)]
          /\ fs' = [fs EXCEPT ![SrcPath(entry)] = f]
    /\ UNCHANGED << env, calls, aux, edvars, synthText, pc, attempt, vres, success, pdf_path,
                    error_message, result, nSynth, nPlanResolve, nImgPass, nValidate,
                    nRepair, nFailed, lastWritten, runs >>

\* validate_tex(tex_file, output_dir, language) (lines 497-510): one direct
\* call of validate on a new validator, outside any loop.
ValidateTex(L) ==
    /\ pc = "start" /\ entry = "process"
    /\ nValidate < MaxCalls
    /\ ValidateCall(L, SrcPath(entry))
    /\ UNCHANGED << env, calls, current_tex_code, fix_raised, planvars, prompt_plan, edvars,
                    synthText, pc, attempt, success, pdf_path, error_message, result,
                    nSynth, nPlanResolve, nRepair, lastWritten >>

\* Mutant of AfterSuccessPc: the loop goes on after a successful attempt.
AfterSuccessContinues == "loop"

\* Line 140, revision line 477: break.
AfterSuccessPc == "return"

\* Lines 136-140: the attempt succeeded; the loop is left.
Succeed ==
    /\ pc = "validated" /\ vres.ok
    /\ success' = TRUE
    /\ pdf_path' = vres.path
    /\ pc' = AfterSuccessPc
    /\ UNCHANGED << env, calls, aux, edvars, synthText, attempt, fs, vres, error_message, result, nSynth, nPlanResolve,
                    nImgPass, nValidate, nRepair, nFailed, lastWritten, runs >>

\* Mutant of fix_tex_code: a call that raises returns no text.
fix_tex_code_or_nothing(tex, r, raised) == IF raised THEN Empty ELSE clean_tex_code(r)

\* TexValidator.fix_tex_code (lines 432-493): the cleaned response r, or the
\* input when the call raises (the except clause at 491-493).
fix_tex_code(tex, r, raised) == IF raised THEN tex ELSE clean_tex_code(r)

\* Mutant of RepairInput: the repair is fed the text of the initial synthesis.
RepairInputFirst(files, tex) == synthText

\* Lines 150-152: the text read back from the source file.
RepairInput(files, tex) == files[tex].data

\* Lines 141-168: the attempt failed and attempts remain: one repair call,
\* whose result overwrites the source.
Repair(R) ==
    /\ pc = "validated" /\ ~vres.ok
    /\ RepairAllowed(attempt, maxRetries)
    /\ error_message' = vres.msg
    /\ current_tex_code' = RepairInput(fs, SrcPath(entry))
    /\ \E r \in R, raised \in BOOLEAN :
          LET fixed == fix_tex_code(current_tex_code', r, raised)
          IN  /\ fs' = [fs EXCEPT ![SrcPath(entry)] = File(fixed)]
              /\ lastWritten' = fixed
              /\ fix_raised' = raised
    /\ nRepair' = nRepair + 1
    /\ attempt' = NextAttempt(attempt)
    /\ pc' = AfterRepairPc
    /\ UNCHANGED << env, calls, planvars, prompt_plan, passes, edvars, synthText, vres, success, pdf_path, result, nSynth, nPlanResolve,
                    nImgPass, nValidate, nFailed, runs >>

\* Lines 141-146: the last attempt failed; no repair.
NoRepair ==
    /\ pc = "validated" /\ ~vres.ok
    /\ ~RepairAllowed(attempt, maxRetries)
    /\ error_message' = vres.msg
    /\ attempt' = NextAttempt(attempt)
    /\ pc' = "loop"
    /\ UNCHANGED << env, calls, aux, edvars, synthText, fs, vres, success, pdf_path, result, nSynth, nPlanResolve,
                    nImgPass, nValidate, nRepair, nFailed, lastWritten, runs >>

\* The loop index is past the budget.
LoopExit ==
    /\ pc = "loop"
    /\ ~LoopHasNext(attempt, maxRetries)
    /\ pc' = "return"
    /\ UNCHANGED << env, calls, aux, edvars, synthText, attempt, fs, vres, success, pdf_path, error_message, result,
                    nSynth, nPlanResolve, nImgPass, nValidate, nRepair, nFailed,
                    lastWritten, runs >>

\* process lines 170-173, revision lines 507-514.
Finish ==
    /\ pc = "return"
    /\ Return(IF success THEN SuccessResult(entry, pdf_path)
              ELSE ExhaustedResult(entry, error_message))
    /\ UNCHANGED << env, calls, aux, edvars, synthText, attempt, fs, vres, success, pdf_path, error_message, nSynth,
                    nPlanResolve, nImgPass, nValidate, nRepair, nFailed, lastWritten,
                    runs >>

\* revise lines 126-155: the files are read and the frame to edit is located.
EdLocate ==
    /\ pc = "start" /\ entry = "editor"
    /\ LET tex   == fs[tex_path].data
           page  == find_target_page_number(feedback)
           si    == SlideIndex(slides, page - 2, 1)
           title == IF si = 0 THEN "" ELSE slides[si].title
           fi    == IF title = "" THEN 0 ELSE FrameIndex(tex, title, 1)
       IN  IF ~planOk THEN
               Return(Result(FALSE, "exception", "", "none")) /\ UNCHANGED edOld
           ELSE IF page = -1 THEN
               Return(Result(FALSE, "no_page_number", "", "none")) /\ UNCHANGED edOld
           ELSE IF Unsupported(page) THEN
               Return(Result(FALSE, "not_supported", "", "none")) /\ UNCHANGED edOld
           ELSE IF si = 0 THEN
               Return(Result(FALSE, "no_slide", "", "none")) /\ UNCHANGED edOld
           ELSE IF title = "" THEN
               Return(Result(FALSE, "no_title", "", "none")) /\ UNCHANGED edOld
           ELSE IF fi = 0 THEN
               Return(Result(FALSE, "no_frame", "", "none")) /\ UNCHANGED edOld
           ELSE /\ edOld' = tex[fi]
                /\ pc' = "ed_llm"
                /\ UNCHANGED result
    /\ UNCHANGED << env, calls, aux, synthText, attempt, fs, vres, success, pdf_path, error_message, nSynth,
                    nPlanResolve, nImgPass, nValidate, nRepair, nFailed, lastWritten,
                    runs, history, new_code, tex_path, nRevise >>

\* revise lines 157-194: the generation call, the substitution, the write of
\* the revised source at its own path.
EdPatch ==
    /\ pc = "ed_llm"
    /\ \E raises \in BOOLEAN, new \in EdNewCodes(edOld) :
          LET tex     == fs[tex_path].data
              new_tex == ReplaceBlock(tex, edOld, new)
          IN  /\ new_code' = IF raises THEN Empty ELSE new
              /\ IF raises THEN
                     Return(Result(FALSE, "exception", "", "none")) /\ UNCHANGED fs
                 ELSE IF new = Empty THEN
                     Return(Result(FALSE, "incomplete", "", "none")) /\ UNCHANGED fs
                 ELSE IF new_tex = tex THEN
                     Return(Result(FALSE, "not_replaced", "", "none")) /\ UNCHANGED fs
                 ELSE /\ fs' = [fs EXCEPT ![RevisedPath(tex_path)] = File(new_tex)]
                      /\ pc' = "ed_compile"
                      /\ UNCHANGED result
    /\ UNCHANGED << env, calls, aux, history, edOld, tex_path, nRevise, synthText, attempt, vres, success, pdf_path,
                    error_message, nSynth, nPlanResolve, nImgPass, nValidate, nRepair,
                    nFailed, lastWritten, runs >>

\* revise lines 196-209 with _compile_tex (lines 88-118): the compiler runs in
\* place, twice, with no timeout; the history gets the two entries.
EdCompile ==
    /\ pc = "ed_compile"
    /\ runs' = runs \cup { Run("editor", NoTimeout) }
    /\ LET rev == RevisedPath(tex_path)
       IN  \E outcome \in EdCompileOutcomes, wrote \in BOOLEAN, n \in 0..2 :
              /\ outcome = "ok" => (wrote /\ n = 2)
              /\ outcome \in { "failed", "hang" } => n >= 1
              /\ outcome = "notfound" => n = 0
              /\ outcome \in {"notfound", "hang"} => ~wrote
              /\ passes' = n
              /\ fs' = IF wrote
                       THEN [fs EXCEPT ![PdfPath(rev)] = File(CompiledFrom(fs[rev].data))]
                       ELSE fs
              /\ IF outcome = "hang"
                 THEN /\ pc' = "hung"
                      /\ UNCHANGED << result, history >>
                 ELSE IF outcome = "raised"
                 THEN /\ Return(Result(FALSE, "exception", "", "none"))
                      /\ UNCHANGED history
                 ELSE /\ history' = HistoryAfter(history, feedback, outcome = "ok")
                      /\ Return(IF outcome = "ok"
                                THEN Result(TRUE, "revised", "", rev)
                                ELSE Result(FALSE, "compile_failed", "", rev))
    /\ UNCHANGED << env, calls, current_tex_code, fix_raised, planvars, prompt_plan, synthText, edOld,
                    new_code, tex_path, nRevise, attempt, vres, success, pdf_path, error_message, nSynth,
                    nPlanResolve, nImgPass, nValidate, nRepair, nFailed, lastWritten >>

\* The driver's loop (test_interactive_reviser.py lines 63-92): the next
\* feedback is read and revise is called on the current source, which is the
\* revised one only if the last revise call succeeded.
\* FB: the feedbacks the user can give.
EdNextCall(FB) ==
    /\ pc = "done" /\ entry = "editor"
    /\ nRevise < MaxRevise
    /\ nRevise' = nRevise + 1
    /\ tex_path' = Adopt(result.success, result.path, tex_path)
    /\ feedback' \in FB
    /\ result' = NoResult
    /\ edOld' = T
    /\ new_code' = Empty
    /\ passes' = 0
    /\ pc' = "start"
    /\ UNCHANGED << entry, maxRetries, planOk, llmOk, visible, slides, prev_pdf, viaRun,
                    gen_plan, calls, current_tex_code, fix_raised, planvars, prompt_plan, history,
                    synthText, attempt, fs, vres, success, pdf_path, error_message,
                    nSynth, nPlanResolve, nImgPass, nValidate, nRepair, nFailed,
                    lastWritten, runs >>

Next ==
    \/ Construct
    \/ EdLocate
    \/ EdPatch
    \/ EdCompile
    \/ LoadPlan
    \/ Generate(Responses)
    \/ ReviseGenerate
    \/ Validate(Logs)
    \/ Succeed
    \/ Repair(Responses)
    \/ NoRepair
    \/ LoopExit
    \/ Finish

Spec == Init /\ [][Next]_vars

(***************************************************************************)
(* The runs of TexWorkflow.process alone, under the assumption that every  *)
(* external call (generation, repair, compiler subprocess) returns: the    *)
(* execution is single-threaded and synchronous, so a step that can be     *)
(* taken is taken.  The responses and logs are a part of those of Spec.    *)
(***************************************************************************)

LiveResponses == { Empty, << D, B, T, E >>, << T >>, << D, B, Img(FALSE, 0), E >> }

LiveLogs == { {"undefined_cs"}, {} }

LiveInit == Init /\ entry = "process" /\ ~viaRun /\ visible = {}

LiveNext ==
    \/ LoadPlan
    \/ Generate(LiveResponses)
    \/ Validate(LiveLogs)
    \/ Succeed
    \/ Repair(LiveResponses)
    \/ NoRepair
    \/ LoopExit
    \/ Finish

LiveSpec == LiveInit /\ [][LiveNext]_vars /\ WF_vars(LiveNext)

(***************************************************************************)
(* The runs of TexWorkflow.process over the plans with figures and the     *)
(* states of the images directory.                                          *)
(***************************************************************************)

(***************************************************************************)
(* The classifier called directly, on any validator and any raw log, in    *)
(* any order.                                                               *)
(***************************************************************************)

ClassifierLogs ==
    Logs \cup { {"package_error", "tikz_error"}, {"missing_inserted", "warning"},
                {"cant_find_file"} }

\* One call of TexValidator._extract_error_message.
Classify(self, log) ==
    /\ Len(calls) < MaxCalls
    /\ calls' = Append(calls, [self |-> self, log |-> log, result |-> classify(self, log)])
    /\ UNCHANGED << env, aux, edvars, synthText, pc, attempt, fs, vres, success, pdf_path,
                    error_message, result, nSynth, nPlanResolve, nImgPass, nValidate,
                    nRepair, nFailed, lastWritten, runs >>

ClassifyInit ==
    /\ Init /\ entry = "process" /\ ~viaRun /\ planOk /\ llmOk
    /\ maxRetries = 0 /\ visible = {}

ClassifyNext == \E self \in Validators, log \in ClassifierLogs : Classify(self, log)

ClassifySpec == ClassifyInit /\ [][ClassifyNext]_vars

(***************************************************************************)
(* Direct calls of validate_tex on a file that may or may not be there.    *)
(***************************************************************************)

DirectInit == Init /\ entry = "process" /\ ~viaRun /\ planOk /\ llmOk /\ maxRetries = 0

DirectNext ==
    \/ PutSource
    \/ ValidateTex(Logs)

DirectSpec == DirectInit /\ [][DirectNext]_vars

(***************************************************************************)
(* A session of the driver of the localized reviser: up to MaxRevise       *)
(* revise calls on one EditorAgent.                                         *)
(***************************************************************************)

SessionInit == Init /\ entry = "editor"

\* The feedbacks of the later rounds: the title page, the first and the
\* second slide.
SessionFeedbacks == { << 1 >>, << 3 >>, << 4 >> }

SessionNext ==
    \/ EdLocate
    \/ EdPatch
    \/ EdCompile
    \/ EdNextCall(SessionFeedbacks)

SessionSpec == SessionInit /\ [][SessionNext]_vars

PlanInit == InitWith(Plans, AssetStates) /\ entry = "process" /\ ~viaRun /\ visible = {}

PlanSpec == PlanInit /\ [][LiveNext]_vars

(***************************************************************************)
(* Properties                                                              *)
(***************************************************************************)

\* The runs of the two retry loops.
Looping == entry \in { "process", "revision" }

\* The run ended with every one of its max_retries compile attempts failed.
Exhausted ==
    /\ Looping /\ pc = "done"
    /\ result.msg \in { "exhausted", "compile_failed" }
    /\ maxRetries >= 1

\* C1: in every run of the generate-compile loop and of the whole-document
\* revision loop the number of calls of TexValidator.validate never exceeds
\* max_retries.
C1_AttemptsWithinBudget == Looping => nValidate <= maxRetries

C1_Witness ==
    /\ Looping /\ pc = "done"
    /\ maxRetries >= 2 /\ nValidate = maxRetries /\ nRepair = maxRetries - 1

\* C2: when every external call returns, a run of TexWorkflow.process
\* eventually returns a result (success, exhausted or generation failure).
C2_ProcessTerminates == (entry = "process") ~> (pc = "done" /\ result.set)

C2_Witness ==
    /\ entry = "process" /\ pc = "done" /\ result.set
    /\ nValidate >= 2 /\ nRepair >= 2

\* C3: a run that returns success=true returns the path of the compiled file
\* in the persistent output location, and that file exists and is not empty.
C3_SuccessHasArtifact ==
    (Looping /\ result.set /\ result.success) =>
        /\ result.path = PdfPath(SrcPath(entry))
        /\ fs[result.path].exists
        /\ fs[result.path].data # Empty
        /\ Head(fs[result.path].data) = Tok("PDF")

C3_Witness ==
    /\ Looping /\ result.set /\ result.success
    /\ nRepair >= 1 /\ fs[PdfPath(SrcPath(entry))].exists

\* C4: a run that ends Exhausted returns the last compile error in its
\* message and the path of the last-written source file.
C4_ExhaustedCarriesErrorAndSource ==
    Exhausted => /\ result.err = error_message /\ result.err # ""
                 /\ result.path = SrcPath(entry)

\* C5: when a run ends Exhausted the source file at the stable path exists and
\* holds the last source written by the synthesis or by the most recent repair.
C5_ExhaustedSourceIsLastWritten ==
    Exhausted => /\ fs[SrcPath(entry)].exists
                 /\ fs[SrcPath(entry)].data = lastWritten

\* C6: if the synthesis of TexWorkflow.process returns empty text the run
\* ends at once with success=false: no compile attempt, no repair call, no
\* second synthesis, no source file written.
C6_EmptySynthesisIsFatal ==
    (entry = "process" /\ nSynth >= 1 /\ synthText = Empty) =>
        /\ pc = "done" /\ result.set /\ ~result.success
        /\ result.msg = "gen_failed" /\ result.path = "none"
        /\ nSynth = 1 /\ nValidate = 0 /\ nRepair = 0 /\ runs = {}
        /\ ~fs[SrcPath(entry)].exists

C6_Witness ==
    /\ entry = "process" /\ llmOk /\ nSynth = 1 /\ synthText = Empty
    /\ pc = "done" /\ maxRetries >= 1

\* C7: if the synthesized text is not empty but lacks the document-start or
\* the document-end marker, the synthesis fails and the run ends without any
\* compile attempt.
C7_MarkerlessSynthesisIsFatal ==
    (entry = "process" /\ nSynth >= 1 /\ synthText # Empty /\ ~HasMarkers(synthText)) =>
        /\ nValidate = 0
        /\ pc = "done" => ~result.success

C9_EveryCompileBounded ==
    /\ \A r \in runs : r.timeout # NoTimeout
    /\ pc # "hung"
    /\ (pc = "validated" /\ vres.outcome = "timeout") =>
          (~vres.ok /\ ~result.set /\ nFailed = attempt)

\* C10: each failed compile attempt k < max_retries is followed by exactly one
\* repair call and by attempt k+1, the failed attempt k = max_retries by none:
\* the repair calls are as many as the failed compiles, minus one when the
\* run ends Exhausted.
C10_OneRepairPerFailure ==
    Looping =>
        /\ (pc = "validated" /\ ~vres.ok) =>
              (nValidate = attempt /\ nFailed = attempt /\ nRepair = attempt - 1)
        /\ (pc = "loop" /\ attempt <= maxRetries) =>
              (nValidate = attempt - 1 /\ nFailed = attempt - 1 /\ nRepair = attempt - 1)
        /\ (pc = "done" /\ result.success) => nRepair = nFailed
        /\ Exhausted => (nFailed = maxRetries /\ nRepair = nFailed - 1)

C10_Witness ==
    /\ Exhausted /\ maxRetries >= 2
    /\ nFailed = maxRetries /\ nRepair = maxRetries - 1
    /\ error_message = "timeout"

\* A repair call has just returned and its result has been written.
JustRepaired == Looping /\ pc = "loop" /\ nRepair >= 1 /\ nValidate = nRepair

\* C11: a repair that returns empty text, or its input unchanged, is a no-op:
\* the source on disk is as it was before the repair, and the attempt is
\* counted (the loop index has advanced to the next attempt).
C11_EmptyOrSameRepairIsNoOp ==
    (JustRepaired /\ (lastWritten = Empty \/ lastWritten = current_tex_code)) =>
        /\ fs[SrcPath(entry)] = File(current_tex_code)
        /\ attempt = nValidate + 1

\* C12: every repair call is given the text that is on disk at the source
\* path at that moment and its result is what is written there; the source
\* file is changed by nothing but the first write, a compile attempt's image
\* pass over the text on disk, and a repair: no earlier version is fed to a
\* repair or put back.
C12_RepairReadsSourceOnDisk ==
    [][Looping =>
        /\ (nRepair' # nRepair) =>
              /\ current_tex_code' = fs[SrcPath(entry)].data
              /\ fs'[SrcPath(entry)] = File(lastWritten')
        /\ (fs'[SrcPath(entry)] # fs[SrcPath(entry)]) =>
              \/ nRepair' = nRepair + 1
              \/ nSynth' = nSynth + 1
              \/ /\ nValidate' = nValidate + 1
                 /\ fs'[SrcPath(entry)] =
                       File(process_image_references(fs[SrcPath(entry)].data, visible))
      ]_vars

C12_Witness ==
    /\ JustRepaired /\ nRepair >= 2
    /\ current_tex_code # Empty /\ current_tex_code # synthText
    /\ lastWritten # current_tex_code

\* The runs that revise an existing version.
Revising == entry \in { "revision", "editor" }

\* C13: in both revision strategies and for every outcome the compiled file
\* of the previous version is as the run found it, and the revised source and
\* its compiled file are at other paths.
C13_PreviousArtifactKept ==
    Revising =>
        /\ prev_pdf.exists
        /\ fs[PrevArtifact(entry)] = prev_pdf
        /\ entry = "editor" =>
              /\ RevisedPath("output.tex") # "output.tex"
              /\ PdfPath(RevisedPath("output.tex")) # PrevArtifact(entry)
        /\ entry = "revision" => PdfPath(SrcPath(entry)) # PrevArtifact(entry)

C13_Witness ==
    /\ entry = "editor" /\ pc = "done" /\ result.msg = "compile_failed"
    /\ fs[PdfPath(RevisedPath("output.tex"))].exists

\* The revise call made no compiler run, wrote no file and left the previous
\* version and the history as they were.
EdNoEffect ==
    /\ runs = {}
    /\ ~fs[RevisedPath("output.tex")].exists
    /\ ~fs[PdfPath(RevisedPath("output.tex"))].exists
    /\ fs["output.tex"].exists
    /\ fs["output.pdf"] = prev_pdf
    /\ fs["output.pdf"].data = CompiledFrom(fs["output.tex"].data)
    /\ history = << >>

EdRejected(m) == pc = "done" /\ result = Result(FALSE, m, "", "none") /\ EdNoEffect

\* C14: a localized-patch revision is rejected, with no compile, no file
\* written and the previous version untouched, when the feedback names no
\* page, names page 1 or 2, maps to no slide of the plan, when the slide's
\* frame is not found in the source, or when the substitution changes nothing.
C14_UnaddressableRevisionRejected ==
    (entry = "editor" /\ planOk /\ pc # "start") =>
        LET tex   == fs["output.tex"].data
            page  == find_target_page_number(feedback)
            si    == SlideIndex(slides, page - 2, 1)
            title == IF si = 0 THEN "" ELSE slides[si].title
            fi    == IF title = "" THEN 0 ELSE FrameIndex(tex, title, 1)
        IN  /\ page = -1 => EdRejected("no_page_number")
            /\ (page # -1 /\ page <= 2) => EdRejected("not_supported")
            /\ (page > 2 /\ si = 0) => EdRejected("no_slide")
            /\ (page > 2 /\ si # 0 /\ title # "" /\ fi = 0) => EdRejected("no_frame")
            /\ (pc \notin { "ed_llm" } /\ new_code # Empty
                  /\ ReplaceBlock(tex, edOld, new_code) = tex) => EdRejected("not_replaced")
            /\ result.msg \in { "no_page_number", "not_supported", "no_slide",
                                "no_frame", "not_replaced" } => EdRejected(result.msg)

C14_Witness ==
    /\ entry = "editor" /\ pc = "done" /\ result.msg = "not_replaced"
    /\ new_code = << edOld >> /\ EdNoEffect

\* C15: both revision strategies compile the revised source with the compiler
\* component of a fresh run and repair it when its compile fails and attempts
\* remain.
C15_RevisionsReuseCompileRepairCycle ==
    Revising =>
        /\ \A r \in runs : r.by = "validate"
        /\ runs # {} => nValidate >= 1
        /\ (pc = "done" /\ result.msg = "compile_failed" /\ entry = "revision"
              /\ maxRetries >= 2) => nRepair >= 1
        /\ (pc = "done" /\ result.msg = "compile_failed" /\ entry = "editor") =>
              nRepair >= 1

\* C16: after _preprocess_images the figure path of every slide with
\* includes_figure names a file that exists in the images directory (the
\* image or a placeholder); a slide that gives no path is left aside here.
C16_NoDanglingFigure ==
    (entry = "process" /\ nPlanResolve >= 1) =>
        \A i \in 1..Len(presentation_plan) :
            (presentation_plan[i].includes_figure /\ presentation_plan[i].path.set) =>
                PathExists(presentation_plan[i].path, assets)

\* C17: the plan in the prompt of the synthesis is the plan as resolved by
\* _preprocess_images in the same run.
C17_SynthesisSeesResolvedPlan ==
    (entry = "process" /\ prompt_plan.sent) => prompt_plan.plan = presentation_plan

\* C18: a call of run_tex_workflow or of run_revision_tex_workflow never ends
\* by an exception, and when it has ended it has returned a result.
C18_EntryPointsAlwaysReturn ==
    /\ pc # "raised"
    /\ (pc = "done" /\ (viaRun \/ entry = "revision")) => result.set

\* C19: a compile attempt whose compiler run exits with code zero and leaves
\* the compiled file has run the compiler again, two or three times in all,
\* before the file is copied to the output directory.
C19_SuccessfulAttemptIsMultiPass ==
    (Looping /\ pc = "validated" /\ vres.ok) =>
        /\ passes \in 2..3
        /\ fs[PdfPath(SrcPath(entry))].exists

\* C20: every compile attempt (success, non-zero exit, zero exit without a
\* compiled file, timeout) leaves its own log in the output directory.
C20_LogWrittenEveryAttempt ==
    (Looping /\ pc = "validated"
       /\ vres.outcome \in { "pdf", "error", "nopdf", "timeout" }) =>
        fs[LogPath(SrcPath(entry))] = File(LogOf(nValidate))

C22_CompiledFileOnlyOnSuccess ==
    LET src == IF entry = "editor" THEN RevisedPath(tex_path) ELSE SrcPath(entry)
        succeeded == IF entry = "editor" THEN result.set /\ result.success
                     ELSE nFailed < nValidate
    IN  ~succeeded => ~fs[PdfPath(src)].exists

C24_AttemptsUpToFirstSuccess ==
    /\ (Looping /\ success /\ pc \in { "return", "done" }) =>
          /\ vres.ok /\ pdf_path = vres.path
          /\ nValidate = attempt /\ nFailed = nValidate - 1 /\ nRepair = nFailed
          /\ pc = "done" => result = SuccessResult(entry, PdfPath(SrcPath(entry)))
    /\ (Looping /\ pc = "done" /\ result = ExhaustedResult(entry, error_message)) =>
          (nValidate = maxRetries /\ nFailed = nValidate)

C24_Witness ==
    /\ Looping /\ pc = "done" /\ result.success
    /\ maxRetries = 3 /\ nValidate = 2 /\ nRepair = 1

\* The frame blocks of a source, in order.
FramesOf(tex) == SelectSeq(tex, LAMBDA t : t.k = "FR")

\* The source has one frame per slide of the plan, in the order of the plan
\* and with the titles of the plan.
FollowsPlan(tex, plan) ==
    /\ Len(FramesOf(tex)) = Len(plan)
    /\ \A i \in 1..Len(plan) : FramesOf(tex)[i].title = plan[i].title /\ plan[i].title # ""

\* C25: the block given to the generation call, which is the block that is
\* replaced, is the block of the plan slide whose slide_number is N - 2, also
\* when several slides or several blocks carry the same title.
C25_BlockOfTheNamedSlide ==
    (entry = "editor" /\ pc = "ed_llm" /\ FollowsPlan(fs[tex_path].data, slides)) =>
        edOld = FramesOf(fs[tex_path].data)[
                    SlideIndex(slides, find_target_page_number(feedback) - 2, 1)]

\* The source with the block at position i replaced by new.
RECURSIVE ReplaceAt(_, _, _)
ReplaceAt(tex, i, new) ==
    IF tex = Empty THEN Empty
    ELSE IF i = 1 THEN new \o Tail(tex)
    ELSE << Head(tex) >> \o ReplaceAt(Tail(tex), i - 1, new)

\* C26: an applied localized revision changes exactly one block: the revised
\* source is the previous source with the single located block replaced by
\* the replacement text.
C26_ExactlyOneBlockReplaced ==
    (entry = "editor" /\ pc = "ed_compile") =>
        fs[RevisedPath(tex_path)].data =
            ReplaceAt(fs[tex_path].data,
                      FrameIndex(fs[tex_path].data, edOld.title, 1), new_code)

C28_RaisingRepairKeepsSource ==
    (JustRepaired /\ fix_raised) =>
        /\ fs[SrcPath(entry)] = File(current_tex_code)
        /\ lastWritten = current_tex_code
        /\ result = NoResult
        /\ attempt = nValidate + 1 /\ LoopHasNext(attempt, maxRetries)

C28_Witness ==
    /\ JustRepaired /\ fix_raised
    /\ nRepair = 2 /\ current_tex_code # Empty /\ current_tex_code # synthText

\* The history is a sequence of pairs: a user entry, then an assistant entry.
Alternates(h) ==
    /\ Len(h) % 2 = 0
    /\ \A i \in 1..Len(h) : h[i].role = IF i % 2 = 1 THEN "user" ELSE "assistant"

\* C29: the history grows only in a revise call that goes through the compile
\* step, by exactly two entries: the user's feedback, then the assistant's
\* message, whether the compile succeeded or failed; a call rejected before
\* the compile step or ended by an exception leaves it unchanged; so it has
\* even length and alternates user and assistant entries.
C29_HistoryGrowsByPairs ==
    [][ /\ history' # history =>
              /\ pc = "ed_compile" /\ pc' = "done"
              /\ result'.msg \in { "revised", "compile_failed" }
              /\ Len(history') = Len(history) + 2
              /\ SubSeq(history', 1, Len(history)) = history
              /\ history'[Len(history) + 1] = [role |-> "user", content |-> feedback]
              /\ history'[Len(history) + 2].role = "assistant"
              /\ history'[Len(history) + 2].content = result'.success
        /\ (pc = "ed_compile" /\ pc' = "done" /\ result'.msg # "exception") =>
              Len(history') = Len(history) + 2
        /\ (pc' = "done" /\ result'.path = "none") => history' = history
        /\ Alternates(history')
      ]_vars

C29_Witness ==
    /\ entry = "editor" /\ pc = "done" /\ nRevise = 3
    /\ Len(history) = 4
    /\ history[2].content /\ ~history[4].content
    /\ result.msg = "not_supported"

\* C30: revise never modifies the source it is given: whatever the step at
\* which a revision ends, the file at tex_path is as before; an applied
\* revision is written to another path, and the driver takes that path as
\* its current source only when the revision succeeded.
C30_GivenSourceUntouched ==
    [][ entry = "editor" =>
          /\ fs'[tex_path] = fs[tex_path]
          /\ \A p \in Paths : fs'[p] # fs[p] =>
                (p # tex_path /\ p \in { RevisedPath(tex_path), PdfPath(RevisedPath(tex_path)) })
          /\ tex_path' # tex_path =>
                (result.success /\ tex_path' = result.path /\ fs[tex_path'].exists)
          /\ (pc = "done" /\ pc' = "start" /\ ~result.success) => tex_path' = tex_path
      ]_vars

C30_Witness ==
    /\ entry = "editor" /\ nRevise = 3 /\ pc = "start"
    /\ tex_path = "output_revised.tex"
    /\ fs["output_revised_revised.tex"].exists
    /\ fs["output_revised_revised.tex"].data # fs["output_revised.tex"].data
    /\ fs["output_revised.tex"].data # fs["output.tex"].data
====
